---- MODULE Spec2Model ----
(***************************************************************************)
(* Model of the Kurtosis MCP server (src/mcp_server.py): the tools         *)
(* list_study_spaces, query_availability and get_booking_link, and the     *)
(* helper fetch_kurt_availability.                                         *)
(*                                                                         *)
(* Text is modelled as a sequence of one-character strings, so that the    *)
(* formatting of slot keys and of the availability rendering, and regular  *)
(* expression search over them, are computed and not assumed.  A calendar  *)
(* date is its proleptic Gregorian ordinal (date.toordinal()); a datetime  *)
(* is a day ordinal and an hour.                                           *)
(***************************************************************************)
EXTENDS Integers, Sequences, FiniteSets, TLC

(***************************************************************************)
(* Program constants.                                                      *)
(***************************************************************************)
\* range(8, 24): first hour checked, and the exclusive stop of the range
HourFirst == 8
HourStop == 24
\* timedelta(days=8)
MaxDaysAhead == 8
\* datetime.max is 9999-12-31: adding a day beyond it raises OverflowError
DateMaxOrdinal == 3652059

(***************************************************************************)
(* Bounds of the model.                                                    *)
(***************************************************************************)
\* days explored on either side of the accepted window of dates
DateSlack == 2
\* upstream records in one response, beyond a fully booked day
MaxRecords == 3
\* seats held by filtered_seats in the report stage
MaxSeats == 2
\* busy slots in availability_data, beyond a fully booked day
MaxBusy == 1

(***************************************************************************)
(* Text.                                                                   *)
(***************************************************************************)
Digit == <<"0", "1", "2", "3", "4", "5", "6", "7", "8", "9">>

\* str(n) for an int n >= 0: its decimal digits
RECURSIVE Str(_)
Str(n) == IF n < 10 THEN <<Digit[n + 1]>>
          ELSE Str(n \div 10) \o <<Digit[(n % 10) + 1]>>

\* sep.join(parts)
RECURSIVE Join(_, _)
Join(parts, sep) ==
    IF parts = <<>> THEN <<>>
    ELSE IF Len(parts) = 1 THEN parts[1]
    ELSE parts[1] \o sep \o Join(Tail(parts), sep)

\* map(str, available_slots)
MapStr(slots) == [i \in 1..Len(slots) |-> Str(slots[i])]

\* ",".join(map(str, available_slots))
Render(slots) == Join(MapStr(slots), <<",">>)

\* f"{resource_id}-{hour}"
SlotKey(resource_id, hour) == resource_id \o <<"-">> \o Str(hour)

\* str.lower() on the building and space names in use
Lower(s) ==
    CASE s = "Agora" -> "agora"
      [] s = "AGORA" -> "agora"
      [] s = "Silent" -> "silent"
      [] s = "SILENT" -> "silent"
      [] OTHER -> s

(***************************************************************************)
(* Regular expressions.  A regex argument is its source text with what     *)
(* re.compile makes of it: valid = FALSE when re.compile raises re.error;  *)
(* otherwise an optional "^", a sequence of character classes (a literal   *)
(* is a class of one character) and an optional "$".  none = TRUE is the   *)
(* Python value None.                                                      *)
(***************************************************************************)
Rx(src, valid, bol, body, eol) ==
    [src |-> src, none |-> FALSE, valid |-> valid, bol |-> bol,
     body |-> body, eol |-> eol]

RxNone == [src |-> "", none |-> TRUE, valid |-> TRUE, bol |-> FALSE,
           body |-> <<>>, eol |-> FALSE]
RxUnbalanced == Rx("(", FALSE, FALSE, <<>>, FALSE)
RxEmpty == Rx("", TRUE, FALSE, <<>>, FALSE)
RxEmptyOnly == Rx("^$", TRUE, TRUE, <<>>, TRUE)
RxStartsEight == Rx("^8", TRUE, TRUE, <<{"8"}>>, FALSE)
RxElevenToThirteen == Rx("1[1-3]", TRUE, FALSE, <<{"1"}, {"1", "2", "3"}>>, FALSE)
RxLateNight == Rx("2[4-9]", TRUE, FALSE,
                  <<{"2"}, {"4", "5", "6", "7", "8", "9"}>>, FALSE)
RxStartsS == Rx("^S", TRUE, TRUE, <<{"S"}>>, FALSE)
RxOneAtEnd == Rx("1$", TRUE, FALSE, <<{"1"}>>, TRUE)
RxZ == Rx("Z", TRUE, FALSE, <<{"Z"}>>, FALSE)

\* bool(seat_name_regex): None and "" are falsy
Truthy(rx) == ~rx.none /\ rx.src # ""

\* re.compile(rx) raises re.error
CompileFails(rx) == ~rx.valid

\* the pattern matches s starting at position i
MatchAt(p, s, i) ==
    LET n == Len(p.body) IN
    /\ p.bol => i = 1
    /\ i + n - 1 <= Len(s)
    /\ \A k \in 1..n : s[i + k - 1] \in p.body[k]
    /\ p.eol => i + n - 1 = Len(s)

\* pattern.search(s) is not None
Search(p, s) == \E i \in 1..(Len(s) + 1) : MatchAt(p, s, i)

(***************************************************************************)
(* fetch_kurt_availability: the reduction of the upstream response.        *)
(*                                                                         *)
(* An element of the response is dict = TRUE, a JSON object, or            *)
(* dict = FALSE, any other JSON value (a string, a number, null).  A field *)
(* that item.get() finds absent, null or empty is the falsy value of its   *)
(* sort: <<>> for ResourceID, given = FALSE for Startdatetime, "" for      *)
(* Status.  A timestamp is the text of Startdatetime: iso = FALSE when     *)
(* datetime.fromisoformat rejects it, else its hour and minute fields and  *)
(* whether it ends in "Z".                                                 *)
(***************************************************************************)
Stamp(hour, minute, zulu) ==
    [given |-> TRUE, iso |-> TRUE, hour |-> hour, minute |-> minute, zulu |-> zulu]
NoStamp == [given |-> FALSE, iso |-> FALSE, hour |-> 0, minute |-> 0, zulu |-> FALSE]
BadStamp == [given |-> TRUE, iso |-> FALSE, hour |-> 0, minute |-> 0, zulu |-> FALSE]

Item(rid, stamp, status) ==
    [dict |-> TRUE, ResourceID |-> rid, Startdatetime |-> stamp, Status |-> status]
NotARecord ==
    [dict |-> FALSE, ResourceID |-> <<>>, Startdatetime |-> NoStamp, Status |-> ""]

\* datetime.fromisoformat(s.replace("Z", "+00:00")).hour: the hour field as
\* written; the minute and the UTC marker do not change it
StartHour(stamp) == stamp.hour

\* resource_id and start_datetime_str and status and status != "Available"
CountsAsBusy_Mut(item) ==
    /\ item.ResourceID # <<>>
    /\ item.Startdatetime.given
    /\ item.Status # ""
CountsAsBusy(item) ==
    /\ item.ResourceID # <<>>
    /\ item.Startdatetime.given
    /\ item.Status # ""
    /\ item.Status # "Available"

\* one iteration of "for item in data": raised = TRUE when item.get raises
\* AttributeError, which nothing in fetch_kurt_availability catches
ProcessItem(busy_slots, item) ==
    IF ~item.dict
    THEN [raised |-> TRUE, busy_slots |-> busy_slots]
    ELSE IF CountsAsBusy(item) /\ item.Startdatetime.iso
    THEN [raised |-> FALSE,
          busy_slots |-> busy_slots \cup
              {SlotKey(item.ResourceID, StartHour(item.Startdatetime))}]
    ELSE [raised |-> FALSE, busy_slots |-> busy_slots]

\* the loop over data[i..], from the busy set built so far
RECURSIVE ReduceFrom(_, _, _)
ReduceFrom(data, i, busy_slots) ==
    IF i > Len(data)
    THEN [raised |-> FALSE, busy_slots |-> busy_slots]
    ELSE LET step == ProcessItem(busy_slots, data[i]) IN
         IF step.raised THEN step ELSE ReduceFrom(data, i + 1, step.busy_slots)

\* fetch_kurt_availability on an upstream outcome: ok = FALSE is a transport
\* error, a timeout or raise_for_status() raising
FetchKurtAvailability(outcome) ==
    IF ~outcome.ok
    THEN [raised |-> TRUE, busy_slots |-> {}]
    ELSE ReduceFrom(outcome.data, 1, {})

(***************************************************************************)
(* query_availability: seats, filtering and the report.                    *)
(*                                                                         *)
(* The "seats" mapping of a space, filtered_seats and seat_availability    *)
(* are Python dicts: sequences of entries in insertion order with distinct *)
(* keys.                                                                   *)
(***************************************************************************)
Seat(id, name) == [id |-> id, name |-> name]

\* the loop at "for resource_id, seat_name in seats.items()"
NameFilter_Mut(seats, rx) == seats
NameFilter(seats, rx) ==
    SelectSeq(seats, LAMBDA seat : ~Truthy(rx) \/ Search(rx, seat.name))

\* list(filtered_seats.keys())
Keys(seats) == [i \in 1..Len(seats) |-> seats[i].id]

\* the loop "for hour in range(8, 24)" from hour on
RECURSIVE SlotsFrom(_, _, _, _)
SlotsFrom(resource_id, busy_slots, hour, stop) ==
    IF hour >= stop THEN <<>>
    ELSE (IF SlotKey(resource_id, hour) \notin busy_slots THEN <<hour>> ELSE <<>>)
         \o SlotsFrom(resource_id, busy_slots, hour + 1, stop)

\* available_slots of one seat
AvailableSlots_Mut(resource_id, busy_slots) ==
    SlotsFrom(resource_id, busy_slots, HourFirst, HourStop - 1)
AvailableSlots(resource_id, busy_slots) ==
    SlotsFrom(resource_id, busy_slots, HourFirst, HourStop)

\* seat_availability[seat_name] = value: a key already present keeps its
\* position and takes the new value
DictSet(d, key, value) ==
    IF \E i \in 1..Len(d) : d[i].name = key
    THEN [i \in 1..Len(d) |-> IF d[i].name = key THEN value ELSE d[i]]
    ELSE Append(d, value)

\* one iteration of "for resource_id, seat_name in filtered_seats.items()"
SeatStep(seat_availability, seat, busy_slots, availability_pattern) ==
    LET available_slots == AvailableSlots(seat.id, busy_slots) IN
    IF available_slots # <<>>
       /\ Search(availability_pattern, Render(available_slots))
    THEN DictSet(seat_availability, seat.name,
                 [name |-> seat.name, resource_id |-> seat.id,
                  available_slots |-> available_slots])
    ELSE seat_availability

\* the whole loop, from seat i on
RECURSIVE SeatAvailabilityFrom(_, _, _, _, _)
SeatAvailabilityFrom(filtered_seats, i, seat_availability, busy_slots, pattern) ==
    IF i > Len(filtered_seats) THEN seat_availability
    ELSE SeatAvailabilityFrom(filtered_seats, i + 1,
             SeatStep(seat_availability, filtered_seats[i], busy_slots, pattern),
             busy_slots, pattern)

\* first space whose names equal the query's, case-insensitively; 0 when the
\* loop ends with target_space = None
FindSpace(studyspaces_data, building_name, space_name) ==
    LET hits == {i \in 1..Len(studyspaces_data) :
                    /\ Lower(studyspaces_data[i].buildingName) = Lower(building_name)
                    /\ Lower(studyspaces_data[i].spaceName) = Lower(space_name)}
    IN IF hits = {} THEN 0 ELSE CHOOSE i \in hits : \A j \in hits : i <= j

(***************************************************************************)
(* Dates and datetimes.                                                    *)
(***************************************************************************)
\* a date argument: parses = FALSE when strptime(date, "%Y-%m-%d") raises
\* ValueError, else the ordinal of the date it names
DateArg(ordinal) == [parses |-> TRUE, ordinal |-> ordinal]
BadDate == [parses |-> FALSE, ordinal |-> 0]

\* datetime.now().date(): 2025-06-21
Day0 == 739423

\* query_date < today
IsPast(query_date, today) == query_date < today

\* query_date > max_date, with max_date = today + timedelta(days=8)
IsTooFar_Mut(query_date, today) == query_date >= today + MaxDaysAhead
IsTooFar(query_date, today) == query_date > today + MaxDaysAhead

\* date_obj.replace(hour=h, minute=0, second=0)
AtHour(day, h) == [day |-> day, hour |-> h]
NoDateTime == [day |-> 0, hour |-> 0]

\* end_hour <= start_hour: the end time crosses midnight
CrossesMidnight_Mut(start_hour, end_hour) == end_hour < start_hour
CrossesMidnight(start_hour, end_hour) == end_hour <= start_hour

(***************************************************************************)
(* The tools' results: the kind of text returned and the values it shows.  *)
(***************************************************************************)
Res(kind) ==
    [kind |-> kind, total_seats |-> 0, filtered_count |-> 0, matching |-> 0,
     listing |-> <<>>, spaces |-> <<>>,
     start_datetime |-> NoDateTime, end_datetime |-> NoDateTime]

\* the report of query_availability from seat_availability
Report(total_seats, filtered_seats, seat_availability) ==
    [Res("Report") EXCEPT !.total_seats = total_seats,
                          !.filtered_count = Len(filtered_seats),
                          !.matching = Len(seat_availability),
                          !.listing = seat_availability]

\* re.sub(r"\d+", "XX", seat_name)
RECURSIVE DigitsToXX(_, _)
DigitsToXX(name, inDigits) ==
    IF name = <<>> THEN <<>>
    ELSE IF \E d \in 1..10 : Digit[d] = Head(name)
    THEN (IF inDigits THEN <<>> ELSE <<"X", "X">>) \o DigitsToXX(Tail(name), TRUE)
    ELSE <<Head(name)>> \o DigitsToXX(Tail(name), FALSE)

\* one space of the listing of list_study_spaces: its names, seat count and
\* the set of generalised seat names (the text shows that set sorted)
SpaceSummary(space) ==
    [buildingName |-> space.buildingName, spaceName |-> space.spaceName,
     seat_count |-> Len(space.seats),
     seat_patterns |-> {DigitsToXX(space.seats[i].name, FALSE) :
                           i \in 1..Len(space.seats)}]

\* get_booking_link after the date is parsed
BookingLink(date, start_hour, end_hour) ==
    IF ~date.parses \/ start_hour \notin 0..23 \/ end_hour \notin 0..23
    THEN Res("LinkError")
    ELSE IF CrossesMidnight(start_hour, end_hour)
    THEN IF date.ordinal + 1 > DateMaxOrdinal
         THEN Res("LinkError")
         ELSE [Res("BookingLink") EXCEPT
                  !.start_datetime = AtHour(date.ordinal, start_hour),
                  !.end_datetime = AtHour(date.ordinal + 1, end_hour)]
    ELSE [Res("BookingLink") EXCEPT
             !.start_datetime = AtHour(date.ordinal, start_hour),
             !.end_datetime = AtHour(date.ordinal, end_hour)]

(***************************************************************************)
(* Inputs: the arguments of the tool calls and what the two remote         *)
(* services answer.                                                        *)
(***************************************************************************)
A1 == <<"A", "1">>
A2 == <<"A", "2">>
B1 == <<"B", "1">>
\* a resource of another space
Foreign == <<"A">>
S1 == <<"S", "1">>
S2 == <<"S", "2">>
G1 == <<"G", "1">>

Space(building, space, seats) ==
    [buildingName |-> building, spaceName |-> space, locationId |-> "L", seats |-> seats]

SeatsPlain == <<Seat(A1, S1), Seat(A2, S2), Seat(B1, G1)>>
\* two seats of one space with the same seatName
SeatsTwins == <<Seat(A1, S1), Seat(A2, S1)>>

\* what the directory endpoint answers: ok = FALSE when the request, the
\* status check or the JSON parse raises
DirectoryOutcomes ==
    { [ok |-> FALSE, json |-> <<>>],
      [ok |-> TRUE, json |-> <<>>],
      [ok |-> TRUE, json |-> <<Space("Agora", "Silent", SeatsPlain)>>],
      [ok |-> TRUE, json |-> <<Space("Library", "Silent", SeatsPlain),
                               Space("AGORA", "SILENT", SeatsTwins)>>],
      [ok |-> TRUE, json |-> <<Space("Agora", "Silent", <<>>),
                               Space("AGORA", "SILENT", SeatsPlain)>>] }

\* (building_name, space_name) arguments
QueryNames == {<<"agora", "SILENT">>, <<"Library", "Group">>}

\* date arguments: around the accepted window, the last date of the calendar,
\* and a text that is no date
DateArgs ==
    {BadDate, DateArg(DateMaxOrdinal)} \cup
    {DateArg(d) : d \in (Day0 - DateSlack)..(Day0 + MaxDaysAhead + DateSlack)}

AvailabilityRegexes ==
    {RxUnbalanced, RxEmptyOnly, RxStartsEight, RxElevenToThirteen, RxLateNight}
SeatNameRegexes == {RxNone, RxEmpty, RxUnbalanced, RxStartsS, RxOneAtEnd, RxZ}

\* start_hour and end_hour arguments: the hours of a day, and one that is none
HourArgs == 0..24

Booked(rid, hour) == Item(rid, Stamp(hour, 0, FALSE), "Booked")

\* records booking every hour of the window for one seat
FullDay(rid) == [i \in 1..(HourStop - HourFirst) |-> Booked(rid, HourFirst + i - 1)]

\* what the reservation API answers to query_availability
UpstreamOutcomes ==
    { [ok |-> FALSE, data |-> <<>>],
      [ok |-> TRUE, data |-> <<>>],
      [ok |-> TRUE, data |-> <<Booked(A1, 8)>>],
      [ok |-> TRUE, data |-> <<Booked(A1, 9), Booked(A1, 10)>>],
      [ok |-> TRUE, data |-> FullDay(A1)],
      [ok |-> TRUE, data |-> FullDay(A2) \o <<Booked(Foreign, 8)>>],
      [ok |-> TRUE, data |-> <<NotARecord, Booked(A1, 8)>>] }

\* records of a response given to the reduction
ItemPool ==
    {Item(rid, stamp, status) :
        rid \in {A1, A2},
        stamp \in {Stamp(8, 0, FALSE), Stamp(8, 30, FALSE), Stamp(9, 0, TRUE)},
        status \in {"Available", "Booked"}}
    \cup {Item(<<>>, Stamp(8, 0, FALSE), "Booked"), Item(A1, NoStamp, "Booked"),
          Item(A1, BadStamp, "Booked"), Item(A1, Stamp(8, 0, FALSE), ""),
          NotARecord}

ResponseLists == UNION {[1..n -> ItemPool] : n \in 0..MaxRecords}

\* filtered_seats given to the report stage: distinct resource ids
SeatPool == {Seat(A1, S1), Seat(A2, S1), Seat(A2, S2), Seat(B1, G1)}
SeatLists ==
    {seats \in UNION {[1..n -> SeatPool] : n \in 1..MaxSeats} :
        \A i, j \in 1..Len(seats) : seats[i].id = seats[j].id => i = j}

\* busy slots given to the report stage, as (resourceId, hour) pairs
FullDayPairs(rid) == {<<rid, h>> : h \in HourFirst..(HourStop - 1)}
PairPool == {A1, A2, Foreign} \X {7, 8, 9, 23}
BusyPairSets ==
    {base \cup extra :
        base \in {{}, FullDayPairs(A1), {<<A1, 9>>, <<A1, 10>>}},
        extra \in {e \in SUBSET PairPool : Cardinality(e) <= MaxBusy}}

ReportRegexes == {RxEmpty, RxEmptyOnly, RxStartsEight, RxElevenToThirteen}

(***************************************************************************)
(* State.                                                                  *)
(***************************************************************************)
VARIABLES
    pc,                 \* where the running tool call stands
    tool,               \* the tool called
    args,               \* its arguments
    today,              \* datetime.now().date() read by query_availability
    calls,              \* the network requests issued by the call, in order
    studyspaces_data,   \* what load_studyspaces_data returned
    total_seats,        \* len(seats)
    filtered_seats,     \* the seats retained by the name filter
    busy_pairs,         \* the (resourceId, hour) pairs the busy slots stand for
    availability_data,  \* availability_data["busy_slots"]
    seat_i,             \* position of the report loop in filtered_seats
    computed,           \* available_slots of each seat the loop has done
    seat_availability,  \* the dict of retained seats
    result,             \* what the tool returned
    fk_pc,              \* where fetch_kurt_availability's reduction stands
    fk_data,            \* response.json()
    fk_i,               \* position of the loop in data
    fk_busy             \* busy_slots

callVars == <<pc, tool, args, today, calls, studyspaces_data, total_seats,
              filtered_seats, result>>
reportVars == <<busy_pairs, availability_data, seat_i, computed, seat_availability>>
fetchVars == <<fk_pc, fk_data, fk_i, fk_busy>>
vars == <<callVars, reportVars, fetchVars>>

NoArgs ==
    [building_name |-> "", space_name |-> "", date |-> BadDate,
     availability_regex |-> RxNone, seat_name_regex |-> RxNone,
     resource_id |-> <<>>, start_hour |-> 0, end_hour |-> 0]

DirectoryCall == [to |-> "directory", resource_ids |-> <<>>]
KurtCall(resource_ids) == [to |-> "kurt", resource_ids |-> resource_ids]

CallIdle ==
    /\ pc = "idle"
    /\ tool = "none"
    /\ args = NoArgs
    /\ calls = <<>>
    /\ studyspaces_data = <<>>
    /\ total_seats = 0
    /\ filtered_seats = <<>>
    /\ result = Res("none")

ReportIdle ==
    /\ busy_pairs = {}
    /\ availability_data = {}
    /\ seat_i = 0
    /\ computed = <<>>
    /\ seat_availability = <<>>

FetchIdle ==
    /\ fk_pc = "off"
    /\ fk_data = <<>>
    /\ fk_i = 0
    /\ fk_busy = {}

\* the days the server's clock may show
Clock == {Day0, Day0 + 1}

Init == today \in Clock /\ CallIdle /\ ReportIdle /\ FetchIdle

(***************************************************************************)
(* The tool calls.  A call runs from one network request to the next: the  *)
(* requests are its only suspension points.                                *)
(***************************************************************************)
\* a tool returns
Finish(r) ==
    /\ pc' = "done"
    /\ result' = r

\* query_availability is called: date validation, then the directory request
QA_Call ==
    /\ pc = "idle"
    /\ \E names \in QueryNames, date \in DateArgs,
       availability_regex \in AvailabilityRegexes,
       seat_name_regex \in SeatNameRegexes :
        /\ tool' = "query_availability"
        /\ args' = [NoArgs EXCEPT !.building_name = names[1],
                                  !.space_name = names[2],
                                  !.date = date,
                                  !.availability_regex = availability_regex,
                                  !.seat_name_regex = seat_name_regex]
        /\ IF ~date.parses
           THEN Finish(Res("InvalidDate")) /\ UNCHANGED calls
           ELSE IF IsPast(date.ordinal, today)
           THEN Finish(Res("PastDate")) /\ UNCHANGED calls
           ELSE IF IsTooFar(date.ordinal, today)
           THEN Finish(Res("DateTooFar")) /\ UNCHANGED calls
           ELSE /\ pc' = "qa_load"
                /\ calls' = <<DirectoryCall>>
                /\ UNCHANGED result
        /\ UNCHANGED <<today, studyspaces_data, total_seats, filtered_seats>>
        /\ UNCHANGED <<reportVars, fetchVars>>

\* load_studyspaces_data returns to query_availability, which runs on to an
\* error text or to the availability request
QA_Directory ==
    /\ pc = "qa_load"
    /\ \E outcome \in DirectoryOutcomes :
        LET data == IF outcome.ok THEN outcome.json ELSE <<>>
            target == FindSpace(data, args.building_name, args.space_name)
            seats == data[target].seats
            filtered == NameFilter(seats, args.seat_name_regex)
        IN
        /\ studyspaces_data' = data
        /\ IF target = 0
           THEN /\ Finish(Res("SpaceNotFound"))
                /\ UNCHANGED <<calls, total_seats, filtered_seats>>
           ELSE IF seats = <<>>
           THEN /\ Finish(Res("EmptySeatSet"))
                /\ UNCHANGED <<calls, total_seats, filtered_seats>>
           ELSE IF \/ Truthy(args.seat_name_regex) /\ CompileFails(args.seat_name_regex)
                   \/ CompileFails(args.availability_regex)
           THEN /\ Finish(Res("PatternError"))
                /\ UNCHANGED <<calls, total_seats, filtered_seats>>
           ELSE IF filtered = <<>>
           THEN /\ Finish([Res("NoSeatsMatched") EXCEPT !.total_seats = Len(seats)])
                /\ total_seats' = Len(seats)
                /\ UNCHANGED <<calls, filtered_seats>>
           ELSE /\ pc' = "qa_fetch"
                /\ total_seats' = Len(seats)
                /\ filtered_seats' = filtered
                /\ calls' = Append(calls, KurtCall(Keys(filtered)))
                /\ UNCHANGED result
        /\ UNCHANGED <<tool, args, today>>
        /\ UNCHANGED <<reportVars, fetchVars>>

\* fetch_kurt_availability returns or raises, and query_availability reports
QA_Kurt ==
    /\ pc = "qa_fetch"
    /\ \E outcome \in UpstreamOutcomes :
        LET fetched == FetchKurtAvailability(outcome) IN
        /\ IF fetched.raised
           THEN Finish(Res("FetchError"))
           ELSE Finish(Report(total_seats, filtered_seats,
                    SeatAvailabilityFrom(filtered_seats, 1, <<>>,
                        fetched.busy_slots, args.availability_regex)))
        /\ UNCHANGED <<tool, args, today, calls, studyspaces_data, total_seats,
                       filtered_seats>>
        /\ UNCHANGED <<reportVars, fetchVars>>

\* list_study_spaces is called: the directory request
LS_Call ==
    /\ pc = "idle"
    /\ tool' = "list_study_spaces"
    /\ pc' = "ls_load"
    /\ calls' = <<DirectoryCall>>
    /\ UNCHANGED <<args, today, studyspaces_data, total_seats, filtered_seats, result>>
    /\ UNCHANGED <<reportVars, fetchVars>>

\* load_studyspaces_data returns to list_study_spaces
LS_Directory ==
    /\ pc = "ls_load"
    /\ \E outcome \in DirectoryOutcomes :
        LET data == IF outcome.ok THEN outcome.json ELSE <<>> IN
        /\ studyspaces_data' = data
        /\ IF data = <<>>
           THEN Finish(Res("DataUnavailable"))
           ELSE Finish([Res("Listing") EXCEPT
                    !.spaces = [i \in 1..Len(data) |-> SpaceSummary(data[i])]])
        /\ UNCHANGED <<tool, args, today, calls, total_seats, filtered_seats>>
        /\ UNCHANGED <<reportVars, fetchVars>>

\* get_booking_link is called and returns
BL_Call ==
    /\ pc = "idle"
    /\ \E date \in DateArgs, start_hour \in HourArgs, end_hour \in HourArgs :
        /\ tool' = "get_booking_link"
        /\ args' = [NoArgs EXCEPT !.resource_id = A1, !.date = date,
                                  !.start_hour = start_hour, !.end_hour = end_hour]
        /\ Finish(BookingLink(date, start_hour, end_hour))
        /\ UNCHANGED <<today, calls, studyspaces_data, total_seats, filtered_seats>>
        /\ UNCHANGED <<reportVars, fetchVars>>

\* the result is handed to the caller; nothing of the call is kept
Return ==
    /\ pc = "done"
    /\ pc' = "idle"
    /\ tool' = "none"
    /\ args' = NoArgs
    /\ calls' = <<>>
    /\ studyspaces_data' = <<>>
    /\ total_seats' = 0
    /\ filtered_seats' = <<>>
    /\ result' = Res("none")
    /\ UNCHANGED <<today, reportVars, fetchVars>>

Next ==
    \/ QA_Call
    \/ QA_Directory
    \/ QA_Kurt
    \/ LS_Call
    \/ LS_Directory
    \/ BL_Call
    \/ Return

Spec == Init /\ [][Next]_vars

(***************************************************************************)
(* fetch_kurt_availability's reduction, one record at a time, over every   *)
(* bounded response.                                                       *)
(***************************************************************************)
InitFetch ==
    /\ today = Day0
    /\ CallIdle
    /\ ReportIdle
    /\ fk_pc = "loop"
    /\ fk_data \in ResponseLists
    /\ fk_i = 1
    /\ fk_busy = {}

\* one iteration of "for item in data"
FetchItem ==
    /\ fk_pc = "loop"
    /\ fk_i <= Len(fk_data)
    /\ LET step == ProcessItem(fk_busy, fk_data[fk_i]) IN
       IF step.raised
       THEN fk_pc' = "raised" /\ UNCHANGED <<fk_i, fk_busy>>
       ELSE fk_busy' = step.busy_slots /\ fk_i' = fk_i + 1 /\ UNCHANGED fk_pc
    /\ UNCHANGED <<fk_data, callVars, reportVars>>

\* return {"busy_slots": busy_slots}
FetchReturn ==
    /\ fk_pc = "loop"
    /\ fk_i > Len(fk_data)
    /\ fk_pc' = "returned"
    /\ UNCHANGED <<fk_data, fk_i, fk_busy, callVars, reportVars>>

NextFetch ==
    \/ FetchItem
    \/ FetchReturn

SpecFetch == InitFetch /\ [][NextFetch]_vars

(***************************************************************************)
(* The report stage of query_availability, one seat at a time, from every  *)
(* bounded state in which fetch_kurt_availability has just returned.       *)
(***************************************************************************)
InitReport ==
    /\ today = Day0
    /\ FetchIdle
    /\ pc = "qa_report"
    /\ tool = "query_availability"
    /\ filtered_seats \in SeatLists
    /\ total_seats = Len(filtered_seats)
    /\ studyspaces_data = <<Space("Agora", "Silent", filtered_seats)>>
    /\ \E availability_regex \in ReportRegexes :
          args = [NoArgs EXCEPT !.building_name = "agora",
                                !.space_name = "SILENT",
                                !.date = DateArg(Day0),
                                !.availability_regex = availability_regex]
    /\ calls = <<DirectoryCall, KurtCall(Keys(filtered_seats))>>
    /\ result = Res("none")
    /\ busy_pairs \in BusyPairSets
    /\ availability_data = {SlotKey(p[1], p[2]) : p \in busy_pairs}
    /\ seat_i = 1
    /\ computed = <<>>
    /\ seat_availability = <<>>

\* one iteration of "for resource_id, seat_name in filtered_seats.items()"
ReportSeat ==
    /\ pc = "qa_report"
    /\ seat_i <= Len(filtered_seats)
    /\ computed' = Append(computed,
           [resource_id |-> filtered_seats[seat_i].id,
            available_slots |->
                AvailableSlots(filtered_seats[seat_i].id, availability_data)])
    /\ seat_availability' = SeatStep(seat_availability, filtered_seats[seat_i],
                                     availability_data, args.availability_regex)
    /\ seat_i' = seat_i + 1
    /\ UNCHANGED <<callVars, busy_pairs, availability_data, fetchVars>>

\* the lines of the report are written and the tool returns
ReportAssemble ==
    /\ pc = "qa_report"
    /\ seat_i > Len(filtered_seats)
    /\ Finish(Report(total_seats, filtered_seats, seat_availability))
    /\ UNCHANGED <<tool, args, today, calls, studyspaces_data, total_seats,
                   filtered_seats, reportVars, fetchVars>>

NextReport ==
    \/ ReportSeat
    \/ ReportAssemble

SpecReport == InitReport /\ [][NextReport]_vars

(***************************************************************************)
(* Properties.                                                             *)
(***************************************************************************)
\* the availability requests among the network requests of the call
KurtCalls == SelectSeq(calls, LAMBDA c : c.to = "kurt")

\* the elements of a finite set of integers in ascending order
RECURSIVE Ascending(_)
Ascending(S) ==
    IF S = {} THEN <<>>
    ELSE LET least == CHOOSE x \in S : \A y \in S : x <= y
         IN <<least>> \o Ascending(S \ {least})

\* the hours of the daily window [8,23]
Window == 8..23

\* a record of the response that has its three fields, a timestamp that
\* parses, and a status other than "Available"
IsBusyRecord(item) ==
    /\ item.dict
    /\ item.ResourceID # <<>>
    /\ item.Startdatetime.given
    /\ item.Startdatetime.iso
    /\ item.Status \notin {"", "Available"}

\* a record of the response that is malformed: not a record at all, a missing
\* field, or an unparseable timestamp
IsMalformed(item) ==
    \/ ~item.dict
    \/ item.ResourceID = <<>>
    \/ ~item.Startdatetime.given
    \/ ~item.Startdatetime.iso
    \/ item.Status = ""

\* the (resourceId, hour) pairs of the records of fk_data that make a slot busy
BusyPairsOf(data) ==
    {<<data[i].ResourceID, data[i].Startdatetime.hour>> :
        i \in {j \in 1..Len(data) : IsBusyRecord(data[j])}}

\* C1: every execution of query_availability that ends in PatternError has
\* issued no network request, neither the directory fetch nor the
\* availability fetch.
C1_PatternErrorBeforeAnyNetworkCall ==
    (tool = "query_availability" /\ result.kind = "PatternError") => calls = <<>>

\* C2: when load_studyspaces_data returns an empty list, list_study_spaces and
\* query_availability (whose date passed validation, so the directory was
\* requested) both return the data-could-not-be-loaded text.
C2_EmptyDirectoryReportsDataUnavailable ==
    ( /\ pc = "done"
      /\ tool \in {"list_study_spaces", "query_availability"}
      /\ calls # <<>>
      /\ studyspaces_data = <<>> )
    => result.kind = "DataUnavailable"

\* C3: whatever malformed entries the response holds, the reduction never
\* raises, and it returns exactly the busy set of the well-formed records.
C3_MalformedRecordsNeverInvalidateBatch ==
    /\ fk_pc # "raised"
    /\ fk_pc = "returned" =>
          fk_busy = {SlotKey(p[1], p[2]) :
                        p \in BusyPairsOf(SelectSeq(fk_data,
                                  LAMBDA item : ~IsMalformed(item)))}

EntryOf(i) ==
    [name |-> filtered_seats[i].name, resource_id |-> filtered_seats[i].id,
     available_slots |-> computed[i].available_slots]

\* C4: a name-filtered seat is in the report iff availability_regex matches
\* (search) the comma-joined rendering of its signature, the empty signature
\* (rendered as the empty string) included.
C4_RetainedIffPatternMatches ==
    (tool = "query_availability" /\ pc = "done" /\ result.kind = "Report") =>
        \A i \in 1..Len(filtered_seats) :
            (\E k \in 1..Len(result.listing) :
                result.listing[k].resource_id = filtered_seats[i].id)
            <=> Search(args.availability_regex, Render(computed[i].available_slots))

\* C5: the report lists every seat the availability filter retained, once,
\* with its own name, resourceId and signature, in the order of the name
\* filter, and the match count is their number; also when two seats have the
\* same seatName.
C5_ReportListsSurvivorsInOrder ==
    (tool = "query_availability" /\ pc = "done" /\ result.kind = "Report") =>
        LET entries == [i \in 1..Len(filtered_seats) |-> EntryOf(i)]
            survivors ==
                SelectSeq(entries, LAMBDA e :
                    /\ e.available_slots # <<>>
                    /\ Search(args.availability_regex, Render(e.available_slots)))
        IN /\ result.listing = survivors
           /\ result.matching = Len(survivors)

\* C6: the signature computed for a filtered seat is the ascending sequence of
\* the hours h of 8..23 with (seatId, h) not in the busy set; so it has no
\* duplicate and no hour outside 8..23, and busy slots of other hours or of
\* other resources do not change it.
C6_SignatureIsFreeHoursAscending ==
    \A i \in 1..Len(computed) :
        /\ computed[i].resource_id = filtered_seats[i].id
        /\ computed[i].available_slots =
              Ascending({h \in Window : <<filtered_seats[i].id, h>> \notin busy_pairs})
        /\ \A k \in 1..Len(computed[i].available_slots) :
              /\ computed[i].available_slots[k] \in Window
              /\ \A m \in 1..Len(computed[i].available_slots) :
                    computed[i].available_slots[k] = computed[i].available_slots[m]
                        => k = m

\* C6 witness: seat A1 is busy at 9 and 10, another busy slot is outside the
\* window or of another resource, and A1's signature is 8, 11, ..., 23.
C6_Witness ==
    /\ {<<A1, 9>>, <<A1, 10>>} \subseteq busy_pairs
    /\ \E p \in busy_pairs : p[1] # A1 \/ p[2] \notin Window
    /\ \E i \in 1..Len(computed) :
          /\ computed[i].resource_id = A1
          /\ computed[i].available_slots =
                <<8, 11, 12, 13, 14, 15, 16, 17, 18, 19, 20, 21, 22, 23>>

\* C8: query_availability accepts a date d iff today <= d <= today+8: it then
\* goes on to request the directory; d < today is rejected as a past date and
\* d > today+8 as too far ahead, both before any directory request.
C8_DateWindowInclusive ==
    (tool = "query_availability" /\ args.date.parses) =>
        LET d == args.date.ordinal IN
        /\ (today <= d /\ d <= today + 8) =>
              /\ calls # <<>>
              /\ calls[1].to = "directory"
              /\ result.kind \notin {"InvalidDate", "PastDate", "DateTooFar"}
        /\ d < today => (result.kind = "PastDate" /\ calls = <<>> /\ pc = "done")
        /\ d > today + 8 => (result.kind = "DateTooFar" /\ calls = <<>> /\ pc = "done")

\* C8 witness: the last day of the window, today+8, has been accepted and the
\* directory requested.
C8_Witness ==
    /\ tool = "query_availability"
    /\ args.date.parses
    /\ args.date.ordinal = today + 8
    /\ pc = "qa_load"
    /\ calls = <<DirectoryCall>>

\* the hours from the first instant of the calendar to a datetime
Instant(dt) == dt.day * 24 + dt.hour

\* what C9 says of one finished call of get_booking_link
BookingInstantsRight ==
    LET d == args.date.ordinal
        rolls == args.end_hour <= args.start_hour
    IN /\ result.kind = "BookingLink"
       /\ result.start_datetime = [day |-> d, hour |-> args.start_hour]
       /\ result.end_datetime =
             [day |-> IF rolls THEN d + 1 ELSE d, hour |-> args.end_hour]
       /\ Instant(result.end_datetime) > Instant(result.start_datetime)
       /\ Instant(result.end_datetime) - Instant(result.start_datetime) <= 24

C10_FetchOnceForFilteredSeats ==
    LET d == args.date.ordinal
        target == FindSpace(studyspaces_data, args.building_name, args.space_name)
        seats == studyspaces_data[target].seats
        wanted == {i \in 1..Len(seats) :
                      \/ args.seat_name_regex.none
                      \/ args.seat_name_regex.src = ""
                      \/ Search(args.seat_name_regex, seats[i].name)}
    IN
    /\ Len(KurtCalls) <= 1
    /\ KurtCalls # <<>> =>
          /\ tool = "query_availability"
          /\ calls = <<DirectoryCall, KurtCalls[1]>>
          /\ args.date.parses /\ today <= d /\ d <= today + 8
          /\ target # 0
          /\ seats # <<>>
          /\ args.availability_regex.valid
          /\ args.seat_name_regex.valid
          /\ wanted # {}
          /\ KurtCalls[1].resource_ids =
                [k \in 1..Cardinality(wanted) |->
                    seats[CHOOSE i \in wanted :
                            Cardinality({j \in wanted : j < i}) = k - 1].id]
    /\ result.kind \in {"FetchError", "Report"} => Len(KurtCalls) = 1
    /\ result.kind = "FetchError" =>
          /\ pc = "done"
          /\ result.listing = <<>>
          /\ result.matching = 0

\* C10 witness: the name filter dropped a seat, the fetch for the others
\* failed, and the call ended with FetchError.
C10_Witness ==
    /\ tool = "query_availability"
    /\ pc = "done"
    /\ result.kind = "FetchError"
    /\ Len(KurtCalls) = 1
    /\ Len(KurtCalls[1].resource_ids) < total_seats

====
